---- MODULE Spec2Model ----
(***************************************************************************)
(* Feature selection by random shuffling                                   *)
(* (11-Hybrid-methods/11.1-Feature-shuffling.ipynb).                       *)
(*                                                                         *)
(* The notebook is a linear sequence of cells run over shared names:       *)
(* X_train, y_train, rf, performance_shift, feature_importance, ...        *)
(* It has two sections with the same shape: Classification (roc-auc,       *)
(* random_state=10, keep drift > 0) and Regression (rmse, random_state=11, *)
(* keep drift < 0).  One behaviour of the model is one section, run cell   *)
(* by cell; the shuffling cell may be run again before the selection.      *)
(*                                                                         *)
(* Data frames carry their row labels (index): pandas assigns a Series to  *)
(* a column by LABEL, which is why the notebook resets the index first.    *)
(* Scores are kept as exact integers: roc-auc as the numerator of the      *)
(* pair count (scaled by 2*P*N, the same for every call of one section),   *)
(* rmse in hundredths, rounded down.                                       *)
(*                                                                         *)
(* Spec runs the notebook on data it accepts.  SpecCell runs the shuffling *)
(* cell alone on any arguments and with a model or scorer that can fail.   *)
(* SpecParallel runs the passes of its loop in any interleaving.           *)
(***************************************************************************)
EXTENDS Integers, Sequences, FiniteSets, TLC

\* ---------------------------------------------------------------- bounds
MaxRows == 3
MaxRuns == 2

\* ------------------------------------------------------ program constants
ClassificationSeed == 10
RegressionSeed == 11
SelectionThreshold == 0

Sections == {"Classification", "Regression"}
Columns == <<"x", "y">>
Values == {0, 1}
NaN == -1

VARIABLES
    section,             \* which half of the notebook is run
    pc,                  \* the next cell to run
    X_train,             \* data frame: [index, columns, data]
    y_train,             \* target values, used positionally
    rf,                  \* the fitted model bound to the name rf
    train_score,         \* train_roc / train_rmse
    performance_shift,   \* list of drifts
    iter,                \* position of the for loop in X_train.columns
    feature,             \* loop variable: name of the column being shuffled
    X_train_c,           \* working copy of the current iteration
    shuff_score,         \* shuff_roc / shuff_rmse
    drift,
    feature_importance,  \* Series: [index, values]
    sorted_importance,   \* what the sorting cell shows
    selected_features,   \* selected_features / feat
    predict_calls,       \* predictions made by the current run of the shuffling cell
    fit_calls,           \* fits made so far
    run,                 \* how many times the shuffling cell has been started
    prev_importance,     \* feature_importance of the previous run (history)
    X_before,            \* X_train when the shuffling cell was started (history)
    rf_before,           \* rf when the shuffling cell was started (history)
    y_before,            \* y_train when the shuffling cell was started (history)
    error,               \* the exception that stopped the shuffling cell, "" if none
    fault,               \* what the collaborators of the shuffling cell do wrong, and when
    workers              \* per worker: the loop body's names, when the passes are dealt out

vars == <<section, pc, X_train, y_train, rf, train_score, performance_shift,
          iter, feature, X_train_c, shuff_score, drift, feature_importance,
          selected_features, predict_calls, fit_calls, run, prev_importance,
          X_before, rf_before, y_before, sorted_importance, error, fault,
          workers>>

\* ---------------------------------------------------------------- helpers
Range(s) == {s[i] : i \in 1..Len(s)}

RECURSIVE SumSeq(_)
SumSeq(s) == IF Len(s) = 0 THEN 0 ELSE Head(s) + SumSeq(Tail(s))

\* Integer square root, rounded down.
RECURSIVE ISqrt(_)
ISqrt(n) ==
    IF n < 2 THEN n
    ELSE LET small == 2 * ISqrt(n \div 4)
             large == small + 1
         IN IF large * large > n THEN small ELSE large

NRows(df) == Len(df.index)

\* pandas RangeIndex(0..N-1)
RangeIndex(n) == [i \in 1..n |-> i - 1]

EmptySeries == [index |-> <<>>, values |-> <<>>]
NoModel == [features |-> <<>>, coef |-> <<>>]
NoFrame == [index |-> <<>>, columns |-> <<>>, data |-> <<>>]
NoFault == [kind |-> "none", at |-> 0]

\* The hands the passes of the loop can be dealt out to, and a hand at rest.
Workers == {"w1", "w2"}
Idle == [pc |-> "idle", feature |-> "", X_train_c |-> NoFrame]

\* ------------------------------------------------------------ pandas glue
\* DataFrame.reset_index(drop=True): the labels become 0..N-1, the rows stay.
\* Variant: the reset cell left out, the labels of the split kept.
ResetIndexMutSkipped(df) == df

ResetIndex(df) == [df EXCEPT !.index = RangeIndex(NRows(df))]

\* df[feature]: the column as a Series that shares the frame's labels.
GetColumn(df, f) == [index |-> df.index, values |-> df.data[f]]

\* The generator behind sample(random_state=seed): one step of a linear
\* congruential generator.  Only its being a function of the seed matters.
NextRandom(s) == (2 * s + 8) % 31

\* Swap positions i and j of a sequence.
Swap(p, i, j) == [p EXCEPT ![i] = p[j], ![j] = p[i]]

\* RandomState(seed).permutation(n): Fisher-Yates from the last position down,
\* each partner drawn from the generator.  Positions are 1..n.
RECURSIVE FisherYates(_, _, _)
FisherYates(p, i, s) ==
    IF i <= 1 THEN p
    ELSE LET s2 == NextRandom(s)
             j == (s2 % i) + 1
         IN FisherYates(Swap(p, i, j), i - 1, s2)

Permutation(seed, n) == FisherYates([i \in 1..n |-> i], n, seed)

\* Series.sample(frac=1, random_state=seed): every row once, in the order of
\* the permutation; each value keeps its label.
Sample(ser, seed) ==
    LET n == Len(ser.values)
        p == Permutation(seed, n)
    IN [index |-> [i \in 1..n |-> ser.index[p[i]]],
        values |-> [i \in 1..n |-> ser.values[p[i]]]]

\* Series.reset_index(drop=True)
ResetSeriesIndex(ser) == [ser EXCEPT !.index = RangeIndex(Len(ser.values))]

\* df[feature] = ser: aligned on labels; a row whose label the Series lacks
\* gets NaN.
SetColumn(df, f, ser) ==
    [df EXCEPT !.data[f] =
        [r \in 1..NRows(df) |->
            IF \E q \in 1..Len(ser.index) : ser.index[q] = df.index[r]
            THEN ser.values[CHOOSE q \in 1..Len(ser.index) : ser.index[q] = df.index[r]]
            ELSE NaN]]

\* df[names]: the frame restricted to the listed columns, in the listed order.
SelectColumns(df, names) ==
    [index |-> df.index, columns |-> names,
     data |-> [c \in Range(names) |-> df.data[c]]]

\* Variant: X_train_c = X_train without .copy(), both names on one frame.
ShuffleMutAlias(X, f, seed) ==
    LET c == SetColumn(X, f, ResetSeriesIndex(Sample(GetColumn(X, f), seed)))
    IN [X_train |-> c, X_train_c |-> c]

\* Variant: the whole working copy sampled instead of the one column.
ShuffleMutWholeFrame(X, f, seed) ==
    LET all == [index |-> X.index, columns |-> X.columns,
                data |-> [c \in DOMAIN X.data |->
                    ResetSeriesIndex(Sample(GetColumn(X, c), seed)).values]]
    IN [X_train |-> X, X_train_c |-> all]

\* X_train_c = X_train.copy(); X_train_c[feature] = X_train_c[feature]
\* .sample(frac=1, random_state=seed).reset_index(drop=True): the effect of one
\* pass of the loop body on the two names.  X_train_c is a copy, so X_train is
\* left as it was.
ShuffleFeature(X, f, seed) ==
    [X_train |-> X,
     X_train_c |-> SetColumn(X, f, ResetSeriesIndex(Sample(GetColumn(X, f), seed)))]

\* ------------------------------------------------------- model and scorers
\* A fitted model is opaque: any function of the row that reads the columns
\* it was fitted on.  Here: a 0/1 weight per column, prediction = weighted sum.
Models(names) ==
    {[features |-> names, coef |-> w] : w \in [Range(names) -> {0, 1}]}

\* rf.predict(df) / rf.predict_proba(df)[:, 1]: one prediction per row.
Predict(model, df) ==
    [r \in 1..NRows(df) |->
        SumSeq([k \in 1..Len(model.features) |->
            model.coef[model.features[k]] * df.data[model.features[k]][r]])]

\* roc_auc_score(y, pred), times 2 * #positives * #negatives: a pair
\* (positive, negative) counts 2 if ranked right, 1 if tied.
RocAuc(y, pred) ==
    LET pos == {i \in 1..Len(y) : y[i] = 1}
        neg == {i \in 1..Len(y) : y[i] = 0}
    IN 2 * Cardinality({pr \in pos \X neg : pred[pr[1]] > pred[pr[2]]})
       + Cardinality({pr \in pos \X neg : pred[pr[1]] = pred[pr[2]]})

\* mean_squared_error(y, pred, squared=False), in hundredths, rounded down.
Rmse(y, pred) ==
    LET sse == SumSeq([i \in 1..Len(y) |-> (y[i] - pred[i]) * (y[i] - pred[i])])
    IN ISqrt((10000 * sse) \div Len(y))

Score(sec, y, pred) ==
    IF sec = "Classification" THEN RocAuc(y, pred) ELSE Rmse(y, pred)

\* What a collaborator of the shuffling cell may do wrong: predict raising,
\* predict returning one prediction too few, the scorer raising; in the call
\* with the given number, counted from the baseline call of a run (1).
FaultKinds == {"predict_raises", "predict_short", "scorer_raises"}

Faults(ncalls) ==
    {NoFault} \cup {[kind |-> k, at |-> a] : k \in FaultKinds, a \in 1..ncalls}

\* How many predictions call number callno gives for n rows.
PredictionCount(flt, callno, n) ==
    IF flt.kind = "predict_short" /\ flt.at = callno THEN n - 1 ELSE n

\* Variant: a scorer that pairs the two sequences up and stops at the end of
\* the target, so that a target shorter than the predictions passes.
ConsistentLengthMutShortTarget(ny, npred) == ny <= npred

\* Variant: a scorer that stops at the end of the predictions.
ConsistentLengthMutShortPrediction(ny, npred) == npred <= ny

\* The scorers' check of their two arguments (check_consistent_length).
ConsistentLength(ny, npred) == ny = npred

\* Variant: the lengths compared before the frame is handed to the model.
ScoringErrorMutLengthsFirst(flt, callno, X, y) ==
    IF ~ConsistentLength(Len(y), PredictionCount(flt, callno, NRows(X)))
    THEN "inconsistent_length"
    ELSE IF NRows(X) = 0 \/ Len(X.columns) = 0 \/ Len(y) = 0 THEN "empty_array"
    ELSE IF flt.at = callno /\ flt.kind = "predict_raises" THEN "predict_failed"
    ELSE IF flt.at = callno /\ flt.kind = "scorer_raises" THEN "scorer_failed"
    ELSE ""

\* roc_auc_score(y_train, rf.predict_proba(X)[:, 1]) /
\* mean_squared_error(y_train, rf.predict(X), squared=False): the exception
\* the expression ends in, "" if it gives a score.  The argument is evaluated
\* first, so predict is called in every case: it rejects a frame without rows
\* or without columns, or fails on its own; then the scorer rejects arguments
\* of different lengths or without values, or fails on its own.  The notebook checks nothing
\* itself; both ValueErrors are the library's, named here by what they report.
ScoringError(flt, callno, X, y) ==
    IF NRows(X) = 0 \/ Len(X.columns) = 0 THEN "empty_array"
    ELSE IF flt.at = callno /\ flt.kind = "predict_raises" THEN "predict_failed"
    ELSE IF ~ConsistentLength(Len(y), PredictionCount(flt, callno, NRows(X)))
    THEN "inconsistent_length"
    ELSE IF Len(y) = 0 THEN "empty_array"
    ELSE IF flt.at = callno /\ flt.kind = "scorer_raises" THEN "scorer_failed"
    ELSE ""

\* Variant: the call wrapped in try / except: pass, the notebook going on
\* with what the names hold.
PropagateMutCaught(cell) == "report"

\* No try statement anywhere: an exception ends the cell that raised it and
\* nothing after the failing statement is run.
Propagate(cell) == "raised"

\* Variant: a generator that is not re-seeded, so each run draws further.
SeedMutAdvancing(sec) ==
    (IF sec = "Classification" THEN ClassificationSeed ELSE RegressionSeed) + run

\* Variant: one generator drawn from by every pass, so that each pass gets
\* the next state instead of the literal.
SeedMutPerPass(sec) ==
    (IF sec = "Classification" THEN ClassificationSeed ELSE RegressionSeed) + iter

\* random_state=10 / random_state=11: the same seed in every pass and every run.
Seed(sec) == IF sec = "Classification" THEN ClassificationSeed ELSE RegressionSeed

\* Variant: the difference taken the other way round.
DriftMutNegated(base, shuffled) == shuffled - base

\* drift = train_roc - shuff_roc / drift = train_rmse - shuff_rmse
Drift(base, shuffled) == base - shuffled

\* Variant: the list not emptied at the top of the cell.
FreshListMutKeep(old) == old

\* performance_shift = []
FreshList(old) == <<>>

\* Variant: the loop stopping one column early.
LoopDoneMutShort(i, names) == i >= Len(names)

\* for feature in X_train.columns: the loop is over when the columns are used up.
LoopDone(i, names) == i > Len(names)

\* pd.Series(performance_shift) with index = X_train.columns
MakeSeries(names, vals) == [index |-> names, values |-> vals]

\* The entries of a Series: the positions that have a label and a value.
EntryCount(ser) ==
    IF Len(ser.index) < Len(ser.values) THEN Len(ser.index) ELSE Len(ser.values)

\* One entry put into a Series that is in descending order: after every entry
\* that is at least as large, before the first smaller one.
RECURSIVE InsertDescending(_, _, _, _)
InsertDescending(ser, label, value, i) ==
    IF i <= Len(ser.values) /\ ser.values[i] >= value
    THEN InsertDescending(ser, label, value, i + 1)
    ELSE [index |-> SubSeq(ser.index, 1, i - 1) \o <<label>>
                    \o SubSeq(ser.index, i, Len(ser.index)),
          values |-> SubSeq(ser.values, 1, i - 1) \o <<value>>
                     \o SubSeq(ser.values, i, Len(ser.values))]

\* Variant: ascending=False left out, smallest drift first.
RECURSIVE InsertMutAscending(_, _, _, _)
InsertMutAscending(ser, label, value, i) ==
    IF i <= Len(ser.values) /\ ser.values[i] <= value
    THEN InsertMutAscending(ser, label, value, i + 1)
    ELSE [index |-> SubSeq(ser.index, 1, i - 1) \o <<label>>
                    \o SubSeq(ser.index, i, Len(ser.index)),
          values |-> SubSeq(ser.values, 1, i - 1) \o <<value>>
                     \o SubSeq(ser.values, i, Len(ser.values))]

RECURSIVE SortValuesMutAscending(_, _)
SortValuesMutAscending(ser, n) ==
    IF n = 0 THEN EmptySeries
    ELSE InsertMutAscending(SortValuesMutAscending(ser, n - 1),
                            ser.index[n], ser.values[n], 1)

\* feature_importance.sort_values(ascending=False) of the first n entries: a new
\* Series with the same entries, largest drift first; the Series it is called
\* on is left alone.
RECURSIVE SortValues(_, _)
SortValues(ser, n) ==
    IF n = 0 THEN EmptySeries
    ELSE InsertDescending(SortValues(ser, n - 1), ser.index[n], ser.values[n], 1)

\* Variant: the comparison of the mask the wrong way round.
GreaterThanMutLess(ser, t) == [i \in 1..Len(ser.values) |-> ser.values[i] < t]

\* feature_importance > t and feature_importance < t: a boolean per entry.
GreaterThan(ser, t) == [i \in 1..Len(ser.values) |-> ser.values[i] > t]

LessThan(ser, t) == [i \in 1..Len(ser.values) |-> ser.values[i] < t]

\* Variant: >= in place of >.
GreaterThanMutGeq(ser, t) == [i \in 1..Len(ser.values) |-> ser.values[i] >= t]

\* ser[mask].index: the labels whose entry of the mask is true, in the order
\* of the Series, from position i on.
RECURSIVE MaskIndex(_, _, _)
MaskIndex(ser, mask, i) ==
    IF i > Len(ser.values) THEN <<>>
    ELSE (IF mask[i] THEN <<ser.index[i]>> ELSE <<>>) \o MaskIndex(ser, mask, i + 1)

\* Variant: the selection with the >= mask.
SelectGreaterMutGeq(ser, t) == MaskIndex(ser, GreaterThanMutGeq(ser, t), 1)

\* Variant: the names read from the sorted Series,
\* feature_importance.sort_values(ascending=False)[... > t].index.
SelectGreaterMutSorted(ser, t) ==
    LET sorted == SortValues(ser, Len(ser.values))
    IN MaskIndex(sorted, GreaterThan(sorted, t), 1)

\* feature_importance[feature_importance > t].index
SelectGreater(ser, t) == MaskIndex(ser, GreaterThan(ser, t), 1)

\* Variant: <= in place of <, a drift of exactly 0 kept.
SelectLessMutLeq(ser, t) ==
    MaskIndex(ser, [i \in 1..Len(ser.values) |-> ser.values[i] <= t], 1)

\* feature_importance[feature_importance < t].index
SelectLess(ser, t) == MaskIndex(ser, LessThan(ser, t), 1)

\* selected_features (classification) / feat (regression)
Select(sec, ser) ==
    IF sec = "Classification" THEN SelectGreater(ser, SelectionThreshold)
    ELSE SelectLess(ser, SelectionThreshold)

\* Variant: the filter assigned back, feature_importance =
\* feature_importance[feature_importance > 0], before its index is read.
SelectStatementMutInPlace(sec, ser) ==
    LET names == Select(sec, ser)
        kept == [k \in 1..Len(names) |->
                    ser.values[CHOOSE i \in 1..Len(ser.index) : ser.index[i] = names[k]]]
    IN [feature_importance |-> [index |-> names, values |-> kept],
        selected_features |-> names]

\* selected_features = feature_importance[feature_importance > 0].index /
\* feat = feature_importance[feature_importance < 0].index: what the two names
\* of the statement are bound to afterwards.  The mask and the filtered Series
\* are temporaries; only the left-hand side is assigned.
SelectStatement(sec, ser) ==
    [feature_importance |-> ser, selected_features |-> Select(sec, ser)]

\* ------------------------------------------------------------ the notebook
\* Row labels as train_test_split leaves them: the rows of the training part
\* keep the labels they had in the whole data set, in shuffled order.
SplitIndexes(n) == {[i \in 1..n |-> n - i], [i \in 1..n |-> 2 * i]}

\* A target the scorer accepts: roc_auc_score needs both classes present.
Targets(sec, n) ==
    IF sec = "Classification"
    THEN {y \in [1..n -> {0, 1}] : (\E i \in 1..n : y[i] = 1) /\ (\E i \in 1..n : y[i] = 0)}
    ELSE [1..n -> Values]

\* Cells 6 / 26 have run: the data is loaded and split.
Init ==
    /\ section \in Sections
    /\ \E n \in 1..MaxRows :
        /\ X_train \in {[index |-> ix, columns |-> Columns, data |-> d] :
                          ix \in SplitIndexes(n), d \in [Range(Columns) -> [1..n -> Values]]}
        /\ y_train \in Targets(section, n)
    /\ pc = "reset_index"
    /\ rf = NoModel
    /\ train_score = 0
    /\ performance_shift = <<>>
    /\ iter = 0
    /\ feature = ""
    /\ X_train_c = NoFrame
    /\ shuff_score = 0
    /\ drift = 0
    /\ feature_importance = EmptySeries
    /\ selected_features = <<>>
    /\ predict_calls = 0
    /\ fit_calls = 0
    /\ run = 0
    /\ prev_importance = EmptySeries
    /\ X_before = NoFrame
    /\ rf_before = NoModel
    /\ y_before = <<>>
    /\ sorted_importance = EmptySeries
    /\ error = ""
    /\ fault = NoFault
    /\ workers = [w \in Workers |-> Idle]

\* Cells 7 / 27: X_train.reset_index(drop=True, inplace=True)
ResetIndexCell ==
    /\ pc = "reset_index"
    /\ X_train' = ResetIndex(X_train)
    /\ pc' = "train"
    /\ UNCHANGED <<section, y_train, rf, train_score, performance_shift, iter,
                   feature, X_train_c, shuff_score, drift, feature_importance,
                   selected_features, predict_calls, fit_calls, run,
                   prev_importance, X_before, rf_before, y_before,
                   sorted_importance, error, fault,
                   workers>>

\* Cells 9 / 30: rf = RandomForest...(...); rf.fit(X_train, y_train)
TrainCell ==
    /\ pc = "train"
    /\ rf' \in Models(X_train.columns)
    /\ fit_calls' = fit_calls + 1
    /\ pc' = "shuffle"
    /\ UNCHANGED <<section, X_train, y_train, train_score, performance_shift,
                   iter, feature, X_train_c, shuff_score, drift,
                   feature_importance, selected_features, predict_calls, run,
                   prev_importance, X_before, rf_before, y_before,
                   sorted_importance, error, fault,
                   workers>>

\* Cells 11 / 32, before the loop: the score on the data as it is, and an
\* empty list.  The cell can be run again once its result has been read.
Baseline ==
    /\ \/ pc = "shuffle"
       \/ pc = "report" /\ run < MaxRuns
    /\ ScoringError(fault, 1, X_train, y_train) = ""
    /\ train_score' = Score(section, y_train, Predict(rf, X_train))
    /\ performance_shift' = FreshList(performance_shift)
    /\ iter' = 1
    /\ predict_calls' = 1
    /\ run' = run + 1
    /\ prev_importance' = feature_importance
    /\ X_before' = X_train
    /\ rf_before' = rf
    /\ y_before' = y_train
    /\ pc' = "loop"
    /\ UNCHANGED <<section, X_train, y_train, rf, feature, X_train_c,
                   shuff_score, drift, feature_importance, selected_features,
                   fit_calls, sorted_importance, error, fault,
                   workers>>

\* Cells 11 / 32, one pass of the loop body for the next column.
ShuffleIteration ==
    /\ pc = "loop"
    /\ ~LoopDone(iter, X_train.columns)
    /\ feature' = X_train.columns[iter]
    /\ LET frames == ShuffleFeature(X_train, feature', Seed(section))
       IN /\ X_train' = frames.X_train
          /\ X_train_c' = frames.X_train_c
    /\ ScoringError(fault, predict_calls + 1, X_train_c', y_train) = ""
    /\ shuff_score' = Score(section, y_train, Predict(rf, X_train_c'))
    /\ drift' = Drift(train_score, shuff_score')
    /\ performance_shift' = Append(performance_shift, drift')
    /\ iter' = iter + 1
    /\ predict_calls' = predict_calls + 1
    /\ UNCHANGED <<section, pc, y_train, rf, train_score, feature_importance,
                   selected_features, fit_calls, run, prev_importance,
                   X_before, rf_before, y_before,
                   sorted_importance, error, fault,
                   workers>>

\* Cells 13 / 33: feature_importance = pd.Series(performance_shift);
\* feature_importance.index = X_train.columns; and cell 14, which shows the
\* Series sorted (the regression section has no such cell).
SeriesCell ==
    /\ pc = "loop"
    /\ LoopDone(iter, X_train.columns)
    /\ feature_importance' = MakeSeries(X_train.columns, performance_shift)
    /\ sorted_importance' =
           IF section = "Classification"
           THEN SortValues(feature_importance', EntryCount(feature_importance'))
           ELSE sorted_importance
    /\ pc' = "report"
    /\ UNCHANGED <<section, X_train, y_train, rf, train_score,
                   performance_shift, iter, feature, X_train_c, shuff_score,
                   drift, selected_features, predict_calls, fit_calls, run,
                   prev_importance, X_before, rf_before, y_before,
                   error, fault,
                   workers>>

\* Cell 21, first statement / cell 37, first statement: the selected names.
SelectCell ==
    /\ pc = "report"
    /\ LET bound == SelectStatement(section, feature_importance)
       IN /\ feature_importance' = bound.feature_importance
          /\ selected_features' = bound.selected_features
    /\ pc' = IF section = "Regression" THEN "slice" ELSE "refit"
    /\ UNCHANGED <<section, X_train, y_train, rf, train_score, performance_shift,
                   iter, feature, X_train_c, shuff_score, drift, predict_calls,
                   fit_calls, run, prev_importance, X_before, rf_before,
                   y_before, sorted_importance, error, fault,
                   workers>>

\* Cell 37, rest: X_train = X_train[feat], the regression section only (the
\* classification section slices inside the call of fit).
SliceCell ==
    /\ pc = "slice"
    /\ X_train' = SelectColumns(X_train, selected_features)
    /\ pc' = "refit"
    /\ UNCHANGED <<section, y_train, rf, train_score, performance_shift, iter,
                   feature, X_train_c, shuff_score, drift, feature_importance,
                   selected_features, predict_calls, fit_calls, run,
                   prev_importance, X_before, rf_before, y_before,
                   sorted_importance, error, fault,
                   workers>>

\* Cell 21, rest / cell 39: a new model fitted on the selected columns.
RefitCell ==
    /\ pc = "refit"
    /\ Len(selected_features) > 0
    /\ rf' \in Models(selected_features)
    /\ fit_calls' = fit_calls + 1
    /\ pc' = "done"
    /\ UNCHANGED <<section, X_train, y_train, train_score, performance_shift,
                   iter, feature, X_train_c, shuff_score, drift,
                   feature_importance, selected_features, predict_calls, run,
                   prev_importance, X_before, rf_before, y_before,
                   sorted_importance, error, fault,
                   workers>>

\* Cell 21, rest / cell 39 with nothing selected: fit rejects a frame with no
\* columns and the cell stops; rf has been rebound to the unfitted estimator.
RefitFails ==
    /\ pc = "refit"
    /\ Len(selected_features) = 0
    /\ rf' = NoModel
    /\ pc' = "failed"
    /\ UNCHANGED <<section, X_train, y_train, train_score, performance_shift,
                   iter, feature, X_train_c, shuff_score, drift,
                   feature_importance, selected_features, predict_calls,
                   fit_calls, run, prev_importance, X_before, rf_before, y_before,
                   sorted_importance, error, fault,
                   workers>>

\* Cells 11 / 32, the baseline statement raising: nothing of the cell has
\* been assigned, the list of the previous run included.
BaselineFails ==
    /\ \/ pc = "shuffle"
       \/ pc = "report" /\ run < MaxRuns
    /\ ScoringError(fault, 1, X_train, y_train) # ""
    /\ error' = ScoringError(fault, 1, X_train, y_train)
    /\ predict_calls' = 1
    /\ run' = run + 1
    /\ prev_importance' = feature_importance
    /\ X_before' = X_train
    /\ rf_before' = rf
    /\ y_before' = y_train
    /\ pc' = Propagate("shuffle")
    /\ UNCHANGED <<section, X_train, y_train, rf, train_score, performance_shift,
                   iter, feature, X_train_c, shuff_score, drift,
                   feature_importance, selected_features, fit_calls,
                   sorted_importance, fault,
                   workers>>

\* Cells 11 / 32, the scoring statement of a pass raising: the loop variable
\* and the working copy of the pass are bound, its drift is not computed and
\* nothing is appended.
IterationFails ==
    /\ pc = "loop"
    /\ ~LoopDone(iter, X_train.columns)
    /\ feature' = X_train.columns[iter]
    /\ LET frames == ShuffleFeature(X_train, feature', Seed(section))
       IN /\ X_train' = frames.X_train
          /\ X_train_c' = frames.X_train_c
    /\ ScoringError(fault, predict_calls + 1, X_train_c', y_train) # ""
    /\ error' = ScoringError(fault, predict_calls + 1, X_train_c', y_train)
    /\ predict_calls' = predict_calls + 1
    /\ pc' = Propagate("loop")
    /\ UNCHANGED <<section, y_train, rf, train_score, performance_shift, iter,
                   shuff_score, drift, feature_importance, selected_features,
                   fit_calls, run, prev_importance, X_before, rf_before,
                   y_before, sorted_importance, fault,
                   workers>>

Next ==
    \/ ResetIndexCell
    \/ TrainCell
    \/ Baseline
    \/ ShuffleIteration
    \/ SeriesCell
    \/ SelectCell
    \/ SliceCell
    \/ RefitCell
    \/ RefitFails

Spec == Init /\ [][Next]_vars

\* ------------------------------------- the shuffling cell on any arguments
\* The shuffling cell taken by itself, as the function of rf, X_train and
\* y_train that it is: the names can be bound to anything when it is started,
\* a frame without rows or columns and a target one value short included, and
\* the model and the scorer can fail.  The columns are constant, alternating
\* or zero but for the first row.
CellColumns(n) ==
    {[i \in 1..n |-> 0], [i \in 1..n |-> i % 2], [i \in 1..n |-> IF i = 1 THEN 1 ELSE 0]}

CellFrames(n) ==
    {[index |-> RangeIndex(n), columns |-> Columns, data |-> d] :
        d \in [Range(Columns) -> CellColumns(n)]}
    \cup {[index |-> RangeIndex(n), columns |-> <<>>, data |-> <<>>]}

CellTargets(sec, n) ==
    IF n = 0 THEN {<<>>}
    ELSE Targets(sec, n) \cup Targets(sec, n - 1)

InitCell ==
    /\ section \in Sections
    /\ \E n \in 0..MaxRows :
        /\ X_train \in CellFrames(n)
        /\ y_train \in CellTargets(section, n)
    /\ pc = "shuffle"
    /\ rf \in Models(Columns)
    /\ fault \in Faults(Len(Columns) + 1)
    /\ train_score = 0
    /\ performance_shift = <<>>
    /\ iter = 0
    /\ feature = ""
    /\ X_train_c = NoFrame
    /\ shuff_score = 0
    /\ drift = 0
    /\ feature_importance = EmptySeries
    /\ selected_features = <<>>
    /\ predict_calls = 0
    /\ fit_calls = 1
    /\ run = 0
    /\ prev_importance = EmptySeries
    /\ X_before = NoFrame
    /\ rf_before = NoModel
    /\ y_before = <<>>
    /\ sorted_importance = EmptySeries
    /\ error = ""
    /\ workers = [w \in Workers |-> Idle]

NextCell ==
    \/ Baseline
    \/ BaselineFails
    \/ ShuffleIteration
    \/ IterationFails
    \/ SeriesCell

SpecCell == InitCell /\ [][NextCell]_vars

\* ------------------------------------------- the passes dealt out to workers
\* The statements of the loop body, run for the columns by several workers
\* instead of one after the other.  The notebook has one loop; this is its
\* body under the scheduling section 5 of the specification allows: each
\* worker has the names feature and X_train_c to itself, reads X_train,
\* y_train, rf and the baseline score, uses the seed of the section, and, as
\* the body does, appends its drift to the one list performance_shift.

\* Variant: X_train_c one name for all, as it is in the notebook: the copy
\* scored is the one of whichever worker holds one.
WorkerCopyMutShared(ws, w) ==
    ws[CHOOSE v \in Workers : ws[v].pc = "shuffled"].X_train_c

\* rf.predict_proba(X_train_c): the copy a worker scores is its own.
WorkerCopy(ws, w) == ws[w].X_train_c

\* Entry of the shuffling cell: index reset, model fitted, nothing wrong.
InitParallel ==
    /\ section \in Sections
    /\ \E n \in 2..MaxRows :
        /\ X_train \in {[index |-> RangeIndex(n), columns |-> Columns, data |-> d] :
                          d \in [Range(Columns) -> CellColumns(n)]}
        /\ y_train \in Targets(section, n)
    /\ pc = "shuffle"
    /\ rf \in Models(Columns)
    /\ fault = NoFault
    /\ train_score = 0
    /\ performance_shift = <<>>
    /\ iter = 0
    /\ feature = ""
    /\ X_train_c = NoFrame
    /\ shuff_score = 0
    /\ drift = 0
    /\ feature_importance = EmptySeries
    /\ selected_features = <<>>
    /\ predict_calls = 0
    /\ fit_calls = 1
    /\ run = 0
    /\ prev_importance = EmptySeries
    /\ X_before = NoFrame
    /\ rf_before = NoModel
    /\ y_before = <<>>
    /\ sorted_importance = EmptySeries
    /\ error = ""
    /\ workers = [w \in Workers |-> Idle]

\* A worker at rest takes the next column: X_train_c = X_train.copy();
\* X_train_c[feature] = X_train_c[feature].sample(...).reset_index(drop=True)
WorkerShuffle(w) ==
    /\ pc = "loop"
    /\ workers[w].pc = "idle"
    /\ ~LoopDone(iter, X_train.columns)
    /\ LET frames == ShuffleFeature(X_train, X_train.columns[iter], Seed(section))
       IN /\ X_train' = frames.X_train
          /\ workers' = [workers EXCEPT ![w] =
                 [pc |-> "shuffled", feature |-> X_train.columns[iter],
                  X_train_c |-> frames.X_train_c]]
    /\ iter' = iter + 1
    /\ UNCHANGED <<section, pc, y_train, rf, train_score, performance_shift,
                   feature, X_train_c, shuff_score, drift, feature_importance,
                   selected_features, predict_calls, fit_calls, run,
                   prev_importance, X_before, rf_before, y_before,
                   sorted_importance, error, fault>>

\* The worker scores its copy: shuff_roc = ...; drift = train_roc - shuff_roc;
\* performance_shift.append(drift)
WorkerScore(w) ==
    /\ pc = "loop"
    /\ workers[w].pc = "shuffled"
    /\ shuff_score' = Score(section, y_train, Predict(rf, WorkerCopy(workers, w)))
    /\ drift' = Drift(train_score, shuff_score')
    /\ performance_shift' = Append(performance_shift, drift')
    /\ predict_calls' = predict_calls + 1
    /\ workers' = [workers EXCEPT ![w] = Idle]
    /\ UNCHANGED <<section, pc, X_train, y_train, rf, train_score, iter,
                   feature, X_train_c, feature_importance, selected_features,
                   fit_calls, run, prev_importance, X_before, rf_before,
                   y_before, sorted_importance, error, fault>>

\* The Series cell, run when every worker has handed in.
JoinCell ==
    /\ \A w \in Workers : workers[w].pc = "idle"
    /\ SeriesCell

NextParallel ==
    \/ Baseline
    \/ \E w \in Workers : WorkerShuffle(w)
    \/ \E w \in Workers : WorkerScore(w)
    \/ JoinCell

SpecParallel == InitParallel /\ [][NextParallel]_vars

\* ------------------------------------------------------------- properties
\* The cells after which the loop has run at least once and its names are set.
Shuffled == feature # ""

\* The list of drifts belongs to the run whose snapshot is in X_before.
InOrAfterLoop == pc \in {"loop", "report", "refit", "done", "failed"}

\* How often v occurs in a sequence.
Count(s, v) == Cardinality({i \in 1..Len(s) : s[i] = v})

IsConstant(s) == \A i, j \in 1..Len(s) : s[i] = s[j]

\* The score of the model rf_before on X_before with column number i shuffled.
ShuffledScoreOf(i) ==
    Score(section, y_before,
          Predict(rf_before,
                  ShuffleFeature(X_before, X_before.columns[i], Seed(section)).X_train_c))

BaselineScore == Score(section, y_before, Predict(rf_before, X_before))

\* C1 (isolation): the working copy a shuffled prediction was made on has the
\* rows and every column but the shuffled one exactly as the frame had them
\* when the cell was started, and the target is the target of that moment; so
\* no shuffle of an earlier pass is left in a later working copy.
C1_Isolation ==
    Shuffled =>
        /\ X_train_c.index = X_before.index
        /\ X_train_c.columns = X_before.columns
        /\ \A c \in Range(X_before.columns) \ {feature} :
               X_train_c.data[c] = X_before.data[c]
        /\ y_train = y_before

\* The second pass has run, its own column was really reordered, and the
\* column of the first pass is not constant (a leftover shuffle would show).
C1_Witness ==
    /\ iter = 3
    /\ feature = "y"
    /\ X_train_c.data["y"] # X_before.data["y"]
    /\ ~IsConstant(X_before.data["x"])
    /\ X_train_c.data["x"] = X_before.data["x"]

\* C2 (permutation preserves the column): the frame the cell works on has the
\* labels 0..N-1, and the shuffled column of the working copy has N values,
\* none of them missing, with every value as often as in the original column.
C2_ColumnPreserved ==
    Shuffled =>
        /\ X_before.index = RangeIndex(NRows(X_before))
        /\ Len(X_train_c.data[feature]) = NRows(X_before)
        /\ Count(X_train_c.data[feature], NaN) = 0
        /\ \A v \in Values :
               Count(X_train_c.data[feature], v) = Count(X_before.data[feature], v)

\* A column with both values, three rows, really reordered.
C2_Witness ==
    /\ Shuffled
    /\ NRows(X_before) = 3
    /\ ~IsConstant(X_before.data[feature])
    /\ X_train_c.data[feature] # X_before.data[feature]

\* C3 (higher is better): in the classification section every recorded drift
\* is the score on the unmodified frame minus the score on the working copy
\* with that column shuffled; a shuffle that lowers the score gives drift > 0.
C3_DriftHigherIsBetter ==
    section = "Classification" =>
        /\ (Shuffled /\ Len(performance_shift) > 0) =>
               /\ drift = train_score - shuff_score
               /\ performance_shift[Len(performance_shift)] = drift
               /\ shuff_score < train_score => drift > 0
        /\ pc = "report" =>
               /\ train_score = BaselineScore
               /\ \A i \in 1..Len(performance_shift) :
                      performance_shift[i] = train_score - ShuffledScoreOf(i)

\* Scenario A: x ranks every pair right, y is constant; drift(x) > 0, drift(y) = 0.
C3_Witness ==
    /\ section = "Classification"
    /\ pc = "report"
    /\ IsConstant(X_before.data["y"])
    /\ train_score = 2 * Count(y_before, 1) * Count(y_before, 0)
    /\ feature_importance.values[1] > 0
    /\ feature_importance.values[2] = 0

\* C4 as stated (lower is better): in the regression section the recorded
\* drift is the negation of (baseline - shuffled), so a raised error gives a
\* positive drift.
C4_AsStated ==
    (section = "Regression" /\ pc = "report") =>
        \A i \in 1..Len(performance_shift) :
            performance_shift[i] = -(train_score - ShuffledScoreOf(i))

\* C4 (amended): in the regression section every recorded drift is
\* baseline - shuffled itself, not negated; a shuffle that raises the error
\* gives a negative drift (baseline 100, shuffled 150: -50), and the section
\* keeps the features whose drift is below 0.
C4_DriftLowerIsBetter ==
    section = "Regression" =>
        /\ (Shuffled /\ Len(performance_shift) > 0) =>
               /\ drift = train_score - shuff_score
               /\ performance_shift[Len(performance_shift)] = drift
               /\ shuff_score > train_score => drift < 0
        /\ pc = "report" =>
               /\ train_score = BaselineScore
               /\ \A i \in 1..Len(performance_shift) :
                      performance_shift[i] = train_score - ShuffledScoreOf(i)
        /\ pc \in {"refit", "done", "failed"} =>
               \A i \in 1..Len(feature_importance.values) :
                   feature_importance.values[i] < 0
                       <=> feature_importance.index[i] \in Range(selected_features)

\* The model fits the data exactly, shuffling x raises the rmse, and x is kept.
C4_Witness ==
    /\ section = "Regression"
    /\ pc = "refit"
    /\ train_score = 0
    /\ feature_importance.values[1] < 0
    /\ "x" \in Range(selected_features)

\* C5 (determinism): a second run of the shuffling cell on the same model,
\* data, scorer and seed yields the report of the first run: same names, same
\* order, same drifts.
C5_Determinism ==
    (pc = "report" /\ run >= 2) => feature_importance = prev_importance

\* Two runs done, and the report they agree on has a nonzero drift.
C5_Witness ==
    /\ pc = "report"
    /\ run = 2
    /\ feature_importance.index = Columns
    /\ \E i \in 1..Len(feature_importance.values) : feature_importance.values[i] # 0

\* C6 (constant column): the drift recorded for a column whose rows all hold
\* the same value is exactly 0, in either section (either seed, either scorer).
C6_ConstantColumnZeroDrift ==
    (Shuffled /\ InOrAfterLoop) =>
        \A i \in 1..Len(performance_shift) :
            IsConstant(X_before.data[X_before.columns[i]]) => performance_shift[i] = 0

\* The second column is constant and has drift 0 although shuffling the first
\* column changed the score.
C6_Witness ==
    /\ pc = "loop"
    /\ Len(performance_shift) = 2
    /\ NRows(X_before) = 3
    /\ IsConstant(X_before.data["y"])
    /\ performance_shift[1] # 0
    /\ performance_shift[2] = 0

\* C7 (prediction calls): a finished run of the shuffling cell has made one
\* prediction for the baseline and one per column, F + 1 in all, and no fit:
\* the only fit so far is the one that trained the model.
C7_PredictionCalls ==
    /\ pc = "loop" => predict_calls = Len(performance_shift) + 1
    /\ pc = "report" => predict_calls = Len(X_before.columns) + 1
    /\ pc \in {"loop", "report", "refit"} => fit_calls = 1

\* The second run is finished and has made three predictions of its own.
C7_Witness ==
    /\ pc = "report"
    /\ run = 2
    /\ predict_calls = 3
    /\ fit_calls = 1

\* C8 (inputs unchanged): while the shuffling cell runs and when it has
\* finished, rf is the model, X_train the frame and y_train the target the
\* cell started with; rf is fitted again only after the report is complete.
C8_InputsUnchanged ==
    /\ pc \in {"loop", "report"} =>
           /\ rf = rf_before
           /\ X_train = X_before
           /\ y_train = y_before
    /\ fit_calls > 1 =>
           /\ pc = "done"
           /\ Len(feature_importance.values) = Len(X_before.columns)

\* The report is complete, a working copy was really reordered, X_train is as
\* it was, and the model has then been fitted again.
C8_Witness ==
    /\ pc = "done"
    /\ section = "Classification"
    /\ fit_calls = 2
    /\ X_train = X_before
    /\ X_train_c # X_before
    /\ rf # rf_before

\* C9 (report): the report has one entry per column of the frame, in the
\* frame's column order, the i-th drift being that of the i-th column; a
\* later run starts from an empty list, so it holds no entry of an earlier one.
C9_ReportShape ==
    /\ pc \in {"report", "refit", "done", "failed"} =>
           /\ feature_importance.index = X_before.columns
           /\ Len(feature_importance.values) = Len(X_before.columns)
    /\ pc = "report" =>
           \A i \in 1..Len(feature_importance.values) :
               feature_importance.values[i] = Drift(train_score, ShuffledScoreOf(i))

\* The report of a second run, with different drifts for the two columns.
C9_Witness ==
    /\ pc = "report"
    /\ run = 2
    /\ Len(prev_importance.values) = 2
    /\ feature_importance.values[1] # feature_importance.values[2]

\* Thresholds tried on the reports the model reaches.
Thresholds == -2..2

\* The names `names` are exactly the labels of ser whose value exceeds t.
ExactlyAbove(names, ser, t) ==
    /\ \A k \in 1..Len(names) :
           \E i \in 1..Len(ser.index) : ser.index[i] = names[k] /\ ser.values[i] > t
    /\ \A i \in 1..Len(ser.index) :
           /\ ser.values[i] > t => Count(names, ser.index[i]) = 1
           /\ ser.values[i] <= t => Count(names, ser.index[i]) = 0

\* C10 (selection rule): the classification section selects exactly the names
\* whose drift is strictly above the threshold 0, each once, and none whose
\* drift is 0 or less; the mask does the same for every other threshold.
C10_SelectAboveThreshold ==
    (section = "Classification" /\ pc \in {"refit", "done", "failed"}) =>
        /\ ExactlyAbove(selected_features, feature_importance, SelectionThreshold)
        /\ \A t \in Thresholds :
               ExactlyAbove(SelectGreater(feature_importance, t), feature_importance, t)

\* One feature with drift above 0 is selected, one with drift exactly 0 is not.
C10_Witness ==
    /\ section = "Classification"
    /\ pc = "refit"
    /\ feature_importance.values[1] = 0
    /\ feature_importance.values[2] > 0
    /\ selected_features = <<"y">>

\* The cells after which selected_features / feat is bound.
Selected == pc \in {"slice", "refit", "done", "failed"}

\* Where a name stands in the report, and its drift there.
ColumnPosition(name) ==
    CHOOSE i \in 1..Len(feature_importance.index) : feature_importance.index[i] = name

DriftOf(name) == feature_importance.values[ColumnPosition(name)]

\* C11 as stated: the selected names of the classification section are in
\* descending order of drift, equal drifts in column order.
C11_AsStated ==
    (Selected /\ section = "Classification") =>
        \A k \in 1..(Len(selected_features) - 1) :
            \/ DriftOf(selected_features[k]) > DriftOf(selected_features[k + 1])
            \/ /\ DriftOf(selected_features[k]) = DriftOf(selected_features[k + 1])
               /\ ColumnPosition(selected_features[k])
                      < ColumnPosition(selected_features[k + 1])

\* C11 (order of the selection): in both sections the selected names stand in
\* the order the report, and so the frame, has them, whatever their drifts are;
\* the selection is never reordered by drift.
C11_ColumnOrder ==
    Selected =>
        \A k, l \in 1..Len(selected_features) :
            k < l => ColumnPosition(selected_features[k])
                         < ColumnPosition(selected_features[l])

\* Both columns selected by the classification section, the smaller drift first.
C11_Witness ==
    /\ Selected
    /\ section = "Classification"
    /\ Len(selected_features) = 2
    /\ DriftOf(selected_features[1]) < DriftOf(selected_features[2])

\* The cells after which the report and its sorted view belong to the last run.
Reported == pc \in {"report", "slice", "refit", "done", "failed"}

\* C12 as stated: every selected name of the classification section has a
\* drift strictly greater than that of the name after it.
C12_AsStated ==
    (Selected /\ section = "Classification") =>
        \A k \in 1..(Len(selected_features) - 1) :
            DriftOf(selected_features[k]) > DriftOf(selected_features[k + 1])

\* C12 (the sorted view): what sort_values(ascending=False) shows, in the
\* classification section, which is the one that sorts, has every
\* entry of the report once, each drift greater than or equal to the next one,
\* equal drifts allowed; the report it was taken from keeps its column order.
C12_SortedView ==
    (Reported /\ section = "Classification") =>
        /\ Len(sorted_importance.index) = Len(feature_importance.index)
        /\ Len(sorted_importance.values) = Len(sorted_importance.index)
        /\ \A i \in 1..Len(feature_importance.index) :
               \E j \in 1..Len(sorted_importance.index) :
                   /\ sorted_importance.index[j] = feature_importance.index[i]
                   /\ sorted_importance.values[j] = feature_importance.values[i]
        /\ \A k \in 1..(Len(sorted_importance.values) - 1) :
               sorted_importance.values[k] >= sorted_importance.values[k + 1]
        /\ feature_importance.index = X_before.columns

\* Both columns selected with one and the same drift, next to each other in
\* the sorted view.
C12_Witness ==
    /\ Selected
    /\ section = "Classification"
    /\ Len(selected_features) = 2
    /\ DriftOf(selected_features[1]) = DriftOf(selected_features[2])
    /\ sorted_importance.values[1] = sorted_importance.values[2]

Started == run >= 1

NonEmptyStart == NRows(X_before) > 0 /\ Len(X_before.columns) > 0

TargetMismatch == Len(y_before) # NRows(X_before)

\* C14 as stated: with a target whose length is not the number of rows, and a
\* model and scorer that work, the cell fails on the lengths without having
\* called predict.
C14_AsStated ==
    (Started /\ NonEmptyStart /\ TargetMismatch /\ fault = NoFault) =>
        /\ pc = "raised"
        /\ error = "inconsistent_length"
        /\ predict_calls = 0

\* C14 (target of the wrong length): when the baseline call itself goes well,
\* the cell fails in the baseline statement, on the scorer's comparison of the
\* lengths, after the one baseline prediction has been made and before any
\* column is shuffled, any drift recorded or any report assigned.
C14_FailsInBaseline ==
    (Started /\ NonEmptyStart /\ TargetMismatch /\ fault.at # 1) =>
        /\ pc = "raised"
        /\ error = "inconsistent_length"
        /\ predict_calls = 1
        /\ feature = ""
        /\ X_train_c = NoFrame
        /\ performance_shift = <<>>
        /\ feature_importance = EmptySeries
        /\ X_train = X_before

\* Three rows against two target values, nothing else wrong.
C14_Witness ==
    /\ pc = "raised"
    /\ NRows(X_before) = 3
    /\ Len(X_before.columns) = 2
    /\ Len(y_before) = 2
    /\ fault = NoFault
    /\ error = "inconsistent_length"
    /\ predict_calls = 1

\* The model has returned one prediction too few in a call of this run.
ShortPredictionMade ==
    Started /\ fault.kind = "predict_short" /\ predict_calls >= fault.at

\* C15 (wrong number of predictions): with a frame that has rows and columns
\* and a target of its length, as soon as predict has returned a number of
\* predictions other than the number of rows, in the baseline call or in the
\* call of any pass, the cell has failed in that very call on the scorer's
\* comparison of the lengths, and no report has been assigned.
C15_WrongCountFails ==
    (ShortPredictionMade /\ NonEmptyStart /\ ~TargetMismatch) =>
        /\ pc = "raised"
        /\ error = "inconsistent_length"
        /\ predict_calls = fault.at
        /\ Len(performance_shift) = IF fault.at = 1 THEN 0 ELSE fault.at - 2
        /\ feature_importance = EmptySeries

\* The call of the second pass came back short: one drift is in the list.
C15_Witness ==
    /\ pc = "raised"
    /\ fault = [kind |-> "predict_short", at |-> 3]
    /\ NRows(X_before) = 3
    /\ Len(y_before) = 3
    /\ error = "inconsistent_length"
    /\ Len(performance_shift) = 1
    /\ feature = "y"

\* C16 (empty input): started on a frame without columns or without rows, the
\* cell fails in the baseline statement, where predict rejects the frame as
\* empty, whatever the target is; nothing is recorded, and a report that is
\* assigned always has an entry.
C16_EmptyInputFails ==
    /\ (Started /\ ~NonEmptyStart) =>
           /\ pc = "raised"
           /\ error = "empty_array"
           /\ predict_calls = 1
           /\ performance_shift = <<>>
           /\ feature_importance = EmptySeries
    /\ pc = "report" =>
           /\ Len(feature_importance.index) > 0
           /\ Len(feature_importance.values) = Len(feature_importance.index)

\* A frame of three rows and no column, a target one value short.
C16_Witness ==
    /\ pc = "raised"
    /\ Len(X_before.columns) = 0
    /\ NRows(X_before) = 3
    /\ Len(y_before) = 2
    /\ error = "empty_array"

\* C18 as stated: a failure on the lengths or on emptiness is raised before
\* any column is shuffled and before any drift is recorded.
C18_AsStated ==
    error \in {"inconsistent_length", "empty_array"} =>
        /\ X_train_c = NoFrame
        /\ performance_shift = <<>>

\* C18 (what is failed fast): a target of the wrong length or a frame without
\* rows or columns stops the cell in the baseline statement, before any column
\* is shuffled or any drift recorded; a wrong number of predictions in the
\* pass of a feature stops it in that pass, when the column of the pass has
\* been shuffled in the working copy and the drifts of the passes before are
\* in the list.  Whatever stopped the cell, no report has been assigned and
\* the frame, the target and the model are the ones it was started on.
C18_FailFast ==
    /\ (Started /\ (TargetMismatch \/ ~NonEmptyStart) /\ fault.at # 1) =>
           /\ pc = "raised"
           /\ error \in {"inconsistent_length", "empty_array"}
           /\ predict_calls = 1
           /\ X_train_c = NoFrame
           /\ performance_shift = <<>>
    /\ (ShortPredictionMade /\ NonEmptyStart /\ ~TargetMismatch /\ fault.at > 1) =>
           /\ pc = "raised"
           /\ error = "inconsistent_length"
           /\ X_train_c.columns = X_before.columns
           /\ feature = X_before.columns[fault.at - 1]
           /\ Len(performance_shift) = fault.at - 2
    /\ error # "" =>
           /\ pc = "raised"
           /\ feature_importance = EmptySeries
           /\ X_train = X_before /\ y_train = y_before /\ rf = rf_before

\* A short prediction in the second pass: the column of that pass is shuffled
\* in the working copy, the drift of the first pass is recorded, no report.
C18_Witness ==
    /\ error = "inconsistent_length"
    /\ fault.kind = "predict_short"
    /\ iter = 2
    /\ X_train_c.data["y"] # X_before.data["y"]
    /\ Len(performance_shift) = 1
    /\ feature_importance = EmptySeries

\* The model or the scorer has raised in a call of this run, on arguments the
\* call would otherwise have gone through with.
CollaboratorFailed ==
    /\ Started /\ NonEmptyStart /\ ~TargetMismatch
    /\ fault.kind \in {"predict_raises", "scorer_raises"}
    /\ predict_calls >= fault.at

\* C19 (a failing collaborator is not caught): once predict or the scorer has
\* raised, in the baseline call or in the pass of any feature, the cell has
\* ended in that error: the failing call is the last prediction made, the loop
\* has not moved on, no drift was recorded for the pass, no report is
\* assigned; and nothing at all is run after the failure.
C19_FailurePropagates ==
    /\ [](CollaboratorFailed =>
             /\ pc = "raised"
             /\ error = (IF fault.kind = "predict_raises"
                          THEN "predict_failed" ELSE "scorer_failed")
             /\ predict_calls = fault.at
             /\ iter = (IF fault.at = 1 THEN 0 ELSE fault.at - 1)
             /\ Len(performance_shift) = (IF fault.at = 1 THEN 0 ELSE fault.at - 2)
             /\ feature_importance = EmptySeries)
    /\ [][pc # "raised"]_vars

\* The scorer raised in the first pass: the second column was never shuffled.
C19_Witness ==
    /\ pc = "raised"
    /\ error = "scorer_failed"
    /\ fault.at = 2
    /\ feature = "x"
    /\ predict_calls = 2
    /\ performance_shift = <<>>
    /\ Len(X_before.columns) = 2

\* ------------------------------------- properties of the dealt-out passes
\* The drift the loop, run in order, records for column number i.
SequentialDrift(i) == Drift(BaselineScore, ShuffledScoreOf(i))

SequentialShift == [i \in 1..Len(X_before.columns) |-> SequentialDrift(i)]

\* The position of a column in the frame the cell was started on.
ColumnNumber(name) ==
    CHOOSE i \in 1..Len(X_before.columns) : X_before.columns[i] = name

Normalized(ser) ==
    [index |-> ser.index, values |-> [i \in 1..Len(ser.values) |-> 0 - ser.values[i]]]

\* C21 (the regression rule): the names the regression section keeps, those
\* with baseline minus shuffled rmse strictly below 0, are exactly the names
\* whose negated drift is strictly above 0; a name with drift exactly 0 is in
\* neither; and the kept names stand in the order of the columns.
C21_RegressionRule ==
    (section = "Regression" /\ pc \in {"slice", "refit"}) =>
        /\ Range(selected_features)
               = Range(SelectGreater(Normalized(feature_importance), SelectionThreshold))
        /\ \A i \in 1..Len(feature_importance.index) :
               feature_importance.values[i] = 0 =>
                   /\ feature_importance.index[i] \notin Range(selected_features)
                   /\ feature_importance.index[i] \notin
                          Range(SelectGreater(Normalized(feature_importance),
                                              SelectionThreshold))
        /\ \A k, l \in 1..Len(selected_features) :
               k < l => ColumnPosition(selected_features[k])
                            < ColumnPosition(selected_features[l])

\* The regression section has kept a column whose shuffle made the error
\* larger and dropped one whose drift is exactly 0.
C21_Witness ==
    /\ section = "Regression"
    /\ pc = "slice"
    /\ feature_importance.values[1] < 0
    /\ feature_importance.values[2] = 0
    /\ selected_features = <<"x">>

\* The literal random_state of the section, and the order of rows it gives.
LiteralSeed ==
    IF section = "Classification" THEN ClassificationSeed ELSE RegressionSeed

RowOrder == Permutation(LiteralSeed, NRows(X_before))

\* C22 (one permutation for all features): in every pass the shuffled column
\* of the working copy has, at row i, the value the column had at row
\* RowOrder[i], where RowOrder is the one reordering of the rows 1..N that the
\* section's seed gives; it is the same in every pass, so row i of any two
\* shuffled features comes from the same original row.
C22_SamePermutation ==
    (pc = "loop" /\ Shuffled) =>
        LET n == NRows(X_before)
            order == RowOrder
            column == X_before.data[feature]
        IN /\ Len(order) = n
           /\ Range(order) = 1..n
           /\ X_train_c.data[feature] = [i \in 1..n |-> column[order[i]]]
           /\ \A c \in Range(X_before.columns) :
                  Sample(GetColumn(X_before, c), LiteralSeed).index =
                      [i \in 1..n |-> X_before.index[order[i]]]

\* The second pass is done on three rows; both columns are changed by the
\* reordering, which moves the rows.
C22_Witness ==
    /\ pc = "loop"
    /\ iter = 3
    /\ feature = "y"
    /\ NRows(X_before) = 3
    /\ RowOrder # <<1, 2, 3>>
    /\ X_train_c.data["y"] # X_before.data["y"]
    /\ [i \in 1..3 |-> X_before.data["x"][RowOrder[i]]] # X_before.data["x"]

\* Every name occurs at most once.
DuplicateFree(names) == \A k, l \in 1..Len(names) : names[k] = names[l] => k = l

\* The names of `few` all occur in `many`, in the same relative order.
RECURSIVE IsSubsequence(_, _)
IsSubsequence(few, many) ==
    IF Len(few) = 0 THEN TRUE
    ELSE IF Len(many) = 0 THEN FALSE
    ELSE IF Head(few) = Head(many) THEN IsSubsequence(Tail(few), Tail(many))
    ELSE IsSubsequence(few, Tail(many))

\* C23 (subset, monotone in the threshold): the names bound by the selecting
\* statement are names of the report, none twice; and for any two thresholds
\* t1 <= t2 the names whose drift exceeds t2 are all among the names whose
\* drift exceeds t1, in the same relative order.
C23_MonotoneSelection ==
    /\ Selected =>
           /\ DuplicateFree(selected_features)
           /\ Range(selected_features) \subseteq Range(feature_importance.index)
    /\ pc = "report" =>
           LET above == [t \in Thresholds |-> SelectGreater(feature_importance, t)]
           IN \A t1, t2 \in Thresholds :
                  t1 <= t2 =>
                      /\ DuplicateFree(above[t2])
                      /\ Range(above[t2]) \subseteq Range(feature_importance.index)
                      /\ IsSubsequence(above[t2], above[t1])

\* A report of which the threshold 0 keeps both names and the threshold 1
\* only the second.
C23_Witness ==
    /\ pc = "report"
    /\ SelectGreater(feature_importance, 0) = <<"x", "y">>
    /\ SelectGreater(feature_importance, 1) = <<"y">>
====
